---- MODULE Spec2Model ----
(***************************************************************************)
(* HTTP MAC Access Authentication as implemented by lcp.mac and exercised  *)
(* by tests/test_mac.py: ext digest, normalized request string, nonce,     *)
(* signature generation and verification, timestamp validation, the        *)
(* AuthHeaderValue text form and its parser, and the two end-to-end        *)
(* operations (header generation, header verification).                    *)
(*                                                                         *)
(* Text is a sequence of one-character strings, so that formatting and     *)
(* parsing are computed character by character.  An absent value (Python's *)
(* None) is the distinguished value None.                                  *)
(***************************************************************************)
EXTENDS Integers, Sequences, FiniteSets, TLC

\* ------------------------------------------------------------------ text

\* Python's None.  No text equals it: text holds one-character strings only.
None == <<"None">>

NL == "\n"
QUOTE == "\""

\* str.join of a sequence of texts with nothing between them.
RECURSIVE Concat(_)
Concat(parts) ==
    IF parts = <<>> THEN <<>> ELSE Head(parts) \o Concat(Tail(parts))

\* Whether `pre` is what `s` starts with at position `at` (1-based).
HasAt(s, at, pre) ==
    /\ at + Len(pre) - 1 <= Len(s)
    /\ \A i \in 1..Len(pre) : s[at + i - 1] = pre[i]

\* The first position >= at that holds character c, or 0.
RECURSIVE IndexFrom(_, _, _)
IndexFrom(s, at, c) ==
    IF at > Len(s) THEN 0
    ELSE IF s[at] = c THEN at
    ELSE IndexFrom(s, at + 1, c)

\* s without the characters in `drop`.
RECURSIVE Without(_, _)
Without(s, drop) ==
    IF s = <<>> THEN <<>>
    ELSE IF Head(s) \in drop THEN Without(Tail(s), drop)
    ELSE <<Head(s)>> \o Without(Tail(s), drop)

Digits == <<"0", "1", "2", "3", "4", "5", "6", "7", "8", "9">>

DigitChars == {Digits[i] : i \in 1..10}

DigitValue(c) == (CHOOSE i \in 1..10 : Digits[i] = c) - 1

\* str(n) of a natural number.
RECURSIVE NatToStr(_)
NatToStr(n) ==
    IF n < 10 THEN <<Digits[n + 1]>>
    ELSE NatToStr(n \div 10) \o <<Digits[(n % 10) + 1]>>

\* str(n) of an integer.
IntToStr(n) == IF n < 0 THEN <<"-">> \o NatToStr(-n) ELSE NatToStr(n)

RECURSIVE DigitsToNat(_, _)
DigitsToNat(s, acc) ==
    IF s = <<>> THEN acc
    ELSE DigitsToNat(Tail(s), acc * 10 + DigitValue(Head(s)))

\* Whether int(s) has a value: an optional sign and one or more digits.
IsDecimal(s) ==
    LET body == IF s # <<>> /\ Head(s) = "-" THEN Tail(s) ELSE s
    IN  body # <<>> /\ \A i \in 1..Len(body) : body[i] \in DigitChars

\* int(s) of a decimal text.
StrToInt(s) ==
    IF s # <<>> /\ Head(s) = "-" THEN -DigitsToNat(Tail(s), 0)
    ELSE DigitsToNat(s, 0)

\* ------------------------------------------------- hashing and base64

\* The standard base64 alphabet (base64.b64encode): value v is B64Std[v + 1].
B64Std ==
    <<"A", "B", "C", "D", "E", "F", "G", "H", "I", "J", "K", "L", "M", "N", "O", "P",
      "Q", "R", "S", "T", "U", "V", "W", "X", "Y", "Z", "a", "b", "c", "d", "e", "f",
      "g", "h", "i", "j", "k", "l", "m", "n", "o", "p", "q", "r", "s", "t", "u", "v",
      "w", "x", "y", "z", "0", "1", "2", "3", "4", "5", "6", "7", "8", "9", "+", "/">>

\* Every character the model's texts use; a character's code is its place here.
CharTable ==
    B64Std \o <<"-", "_", "=", " ", NL, QUOTE, ",", ":", "?", ".", "!">>

CharCodes ==
    [c \in {CharTable[i] : i \in 1..Len(CharTable)} |->
        CHOOSE i \in 1..Len(CharTable) : CharTable[i] = c]

CharCode(c) == CharCodes[c]

\* A digest byte: a polynomial hash of the text's character codes modulo a
\* prime.  The cryptographic hashes are modelled by tuples of such bytes with
\* different multipliers and primes.  What the model takes from SHA-1 and HMAC
\* is that the inputs it enumerates get distinct digests unless they are the
\* same text (DigestsDistinct, MacsDistinct).
RECURSIVE PolyHash(_, _, _, _)
PolyHash(s, mult, prime, acc) ==
    IF s = <<>> THEN acc
    ELSE PolyHash(Tail(s), mult, prime, (acc * mult + CharCode(Head(s))) % prime)

HexDigits ==
    <<"0", "1", "2", "3", "4", "5", "6", "7", "8", "9", "a", "b", "c", "d", "e", "f">>

\* Two lowercase hexadecimal characters per byte, as hexdigest() renders them.
RECURSIVE hexdigest(_)
hexdigest(bytes) ==
    IF bytes = <<>> THEN <<>>
    ELSE <<HexDigits[(Head(bytes) \div 16) + 1], HexDigits[(Head(bytes) % 16) + 1]>>
         \o hexdigest(Tail(bytes))

\* hashlib.sha1(text): the digest bytes (three here, twenty in SHA-1).
sha1(s) ==
    <<PolyHash(s, 31, 251, 7), PolyHash(s, 37, 241, 11), PolyHash(s, 41, 239, 13)>>

\* keyczar.keys.HmacKey(key).Sign(msg): the raw MAC bytes.  Five here, twenty
\* in HMAC-SHA1: in both cases two bytes are left for the last base64 group,
\* so the encoded text ends with one "=" and its last character has two
\* spare bits.
HmacByte(key, msg, mult, prime) ==
    PolyHash(msg, mult, prime, PolyHash(key, mult, prime, Len(key) + 1))

HmacKey_Sign(key, msg) ==
    <<HmacByte(key, msg, 31, 251), HmacByte(key, msg, 37, 241),
      HmacByte(key, msg, 41, 239), HmacByte(key, msg, 43, 233),
      HmacByte(key, msg, 47, 229)>>

\* keyczar.keys.HmacKey(key).Verify(msg, sig_bytes): compares the MAC of msg
\* with the bytes given.
HmacKey_Verify(key, msg, sig_bytes) == HmacKey_Sign(key, msg) = sig_bytes

\* base64.b64encode(bytes): the standard alphabet, "=" padding.
RECURSIVE b64encode(_)
b64encode(bytes) ==
    IF bytes = <<>> THEN <<>>
    ELSE IF Len(bytes) = 1 THEN
        <<B64Std[(bytes[1] \div 4) + 1], B64Std[((bytes[1] % 4) * 16) + 1], "=", "=">>
    ELSE IF Len(bytes) = 2 THEN
        <<B64Std[(bytes[1] \div 4) + 1],
          B64Std[((bytes[1] % 4) * 16) + (bytes[2] \div 16) + 1],
          B64Std[((bytes[2] % 16) * 4) + 1], "=">>
    ELSE
        <<B64Std[(bytes[1] \div 4) + 1],
          B64Std[((bytes[1] % 4) * 16) + (bytes[2] \div 16) + 1],
          B64Std[((bytes[2] % 16) * 4) + (bytes[3] \div 64) + 1],
          B64Std[(bytes[3] % 64) + 1]>>
        \o b64encode(SubSeq(bytes, 4, Len(bytes)))

\* What the decoder raises (binascii.Error, which keyczar turns into
\* Base64DecodingError).
DecodingError == <<"Base64DecodingError">>

\* The value of a character of the standard alphabet, -1 for any other.
B64Values ==
    [c \in {CharTable[i] : i \in 1..Len(CharTable)} |->
        IF \E i \in 1..64 : B64Std[i] = c
        THEN (CHOOSE i \in 1..64 : B64Std[i] = c) - 1
        ELSE -1]

B64Value(c) == B64Values[c]

\* base64.urlsafe_b64decode's translation: "-" becomes "+", "_" becomes "/",
\* and every other character, "+" and "/" included, stays.
UrlsafeTranslate(s) ==
    [i \in 1..Len(s) |-> IF s[i] = "-" THEN "+" ELSE IF s[i] = "_" THEN "/" ELSE s[i]]

\* binascii_find_valid(s, 1): the next character after position `at` that the
\* decoder does not skip ("=" counts), or "" when there is none.
RECURSIVE NextValid(_, _)
NextValid(s, at) ==
    IF at > Len(s) THEN ""
    ELSE IF s[at] = "=" \/ B64Value(s[at]) >= 0 THEN s[at]
    ELSE NextValid(s, at + 1)

\* binascii.a2b_base64's loop: characters outside the alphabet are skipped, a
\* pad is skipped unless it closes a group, six-bit values are shifted in and
\* a byte is put out whenever eight bits are there; bits left at the end are
\* an error ("Incorrect padding").
RECURSIVE a2b_loop(_, _, _, _, _, _)
a2b_loop(s, at, quad_pos, leftchar, leftbits, out) ==
    IF at > Len(s) THEN (IF leftbits # 0 THEN DecodingError ELSE out)
    ELSE IF s[at] = "=" THEN
        IF quad_pos < 2 \/ (quad_pos = 2 /\ NextValid(s, at + 1) # "=")
        THEN a2b_loop(s, at + 1, quad_pos, leftchar, leftbits, out)
        ELSE out
    ELSE IF B64Value(s[at]) < 0 THEN
        a2b_loop(s, at + 1, quad_pos, leftchar, leftbits, out)
    ELSE
        LET acc == (leftchar * 64) + B64Value(s[at])
            bits == leftbits + 6
        IN  IF bits >= 8
            THEN a2b_loop(s, at + 1, (quad_pos + 1) % 4, acc % (2 ^ (bits - 8)),
                          bits - 8, Append(out, acc \div (2 ^ (bits - 8))))
            ELSE a2b_loop(s, at + 1, (quad_pos + 1) % 4, acc, bits, out)

a2b_base64(s) == a2b_loop(s, 1, 0, 0, 0, <<>>)

\* keyczar.util.Base64WSDecode(s): whitespace is dropped, a length of 1 modulo
\* 4 is an error, missing padding is added, and the text is decoded with the
\* web-safe alphabet.
Base64WSDecode(s) ==
    LET t == Without(s, {" ", NL})
        d == Len(t) % 4
        padded == IF d = 2 THEN t \o <<"=", "=">>
                  ELSE IF d = 3 THEN t \o <<"=">>
                  ELSE t
    IN  IF d = 1 THEN DecodingError ELSE a2b_base64(UrlsafeTranslate(padded))

\* ------------------------------------------------------------ lcp.mac

\* mac.TIMESTAMP_MAX_SECONDS.  The tests use it by name only; the model gives
\* it a small value and every property is checked for the next value too.
TIMESTAMP_MAX_SECONDS == 2

\* A logger call: logger.<level>(msg, arg).
LogCall(level, msg, arg) == [level |-> level, msg |-> msg, arg |-> arg]

\* The outcome of a call: the exception raised ("None" when it returns), the
\* value returned, and the logger calls it made.
Returned(val, log) == [exc |-> "None", val |-> val, log |-> log]
Raised(exc, log) == [exc |-> exc, val |-> None, log |-> log]

\* Whether generate_ext has content to digest: neither argument is None or
\* of length zero.
HasContent(content_type, body) ==
    /\ content_type # None
    /\ body # None
    /\ Len(content_type) > 0
    /\ Len(body) > 0

\* generate_ext with a separator between content type and body.
generate_ext_separated(content_type, body) ==
    IF HasContent(content_type, body)
    THEN hexdigest(sha1(content_type \o <<":">> \o body))
    ELSE <<>>

\* generate_ext digesting the content type alone.
generate_ext_of_content_type(content_type, body) ==
    IF HasContent(content_type, body)
    THEN hexdigest(sha1(content_type))
    ELSE <<>>

\* mac.generate_ext(content_type, body).
generate_ext(content_type, body) ==
    IF HasContent(content_type, body)
    THEN hexdigest(sha1(content_type \o body))
    ELSE <<>>

\* build_normalized_request_string with the lines in the order of its
\* arguments: host and port before the request target.
build_in_argument_order(ts, nonce, http_method, host, port, request_uri, ext) ==
    Concat(<<ts, <<NL>>, nonce, <<NL>>, http_method, <<NL>>, host, <<NL>>,
             IntToStr(port), <<NL>>, request_uri, <<NL>>, ext, <<NL>>>>)

\* mac.build_normalized_request_string(ts, nonce, http_method, host, port,
\* request_uri, ext); port is a number, the others are text.
build_normalized_request_string(ts, nonce, http_method, host, port, request_uri, ext) ==
    Concat(<<ts, <<NL>>,
             nonce, <<NL>>,
             http_method, <<NL>>,
             request_uri, <<NL>>,
             host, <<NL>>,
             IntToStr(port), <<NL>>,
             ext, <<NL>>>>)

\* mac.generate_nonce(), given the bytes os.urandom(8) returned.
generate_nonce(random_bytes) == b64encode(random_bytes)

\* mac.generate_signature(mac_key, normalized_request_string).
generate_signature(mac_key, normalized_request_string) ==
    b64encode(HmacKey_Sign(mac_key, normalized_request_string))

\* verify_signature comparing the signature text with the text
\* generate_signature makes, instead of decoding it.
verify_signature_by_text(signature, shared_secret, normalized_request_string) ==
    IF signature = generate_signature(shared_secret, normalized_request_string)
    THEN Returned(None, <<>>)
    ELSE Raised("InvalidSignature", <<>>)

\* mac.verify_signature(signature, shared_secret, normalized_request_string).
verify_signature(signature, shared_secret, normalized_request_string) ==
    IF HmacKey_Verify(shared_secret, normalized_request_string, Base64WSDecode(signature))
    THEN Returned(None, <<>>)
    ELSE Raised("InvalidSignature", <<>>)

\* ts - now, with ts a number or its decimal text: [int |-> n] or [str |-> s].
TimestampDelta(ts, now_) ==
    (IF "str" \in DOMAIN ts THEN StrToInt(ts.str) ELSE ts.int) - now_

\* The future side of the window one second short.
TooFarInTheFuture_inclusive(delta) == delta >= TIMESTAMP_MAX_SECONDS

\* The future side of the window, fixed by the tests: TIMESTAMP_MAX_SECONDS is
\* accepted, TIMESTAMP_MAX_SECONDS + 1 is rejected.
TooFarInTheFuture(delta) == delta > TIMESTAMP_MAX_SECONDS

\* The past side of the window: -TIMESTAMP_MAX_SECONDS - 1 is rejected (the
\* tests), -TIMESTAMP_MAX_SECONDS is accepted (the specification).
TooOld(delta) == -delta > TIMESTAMP_MAX_SECONDS

\* The past warning reporting how far the timestamp is beyond the window.
PastMagnitude_overshoot(delta) == -delta - TIMESTAMP_MAX_SECONDS

\* What the warnings report: the test of a timestamp TIMESTAMP_MAX_SECONDS + 1
\* in the future expects TIMESTAMP_MAX_SECONDS + 1, and the test of one
\* TIMESTAMP_MAX_SECONDS + 1 in the past expects TIMESTAMP_MAX_SECONDS + 1.
FutureMagnitude(delta) == delta

PastMagnitude(delta) == -delta

\* mac.verify_timestamp(ts), the clock reading now_.
verify_timestamp(ts, now_) ==
    LET delta == TimestampDelta(ts, now_)
    IN  IF TooFarInTheFuture(delta) THEN
            Raised("InvalidTimeStamp",
                   <<LogCall("warning", "Rejecting timestamp %ss in the future.",
                             FutureMagnitude(delta))>>)
        ELSE IF TooOld(delta) THEN
            Raised("InvalidTimeStamp",
                   <<LogCall("warning", "Rejecting timestamp %ss in the past.",
                             PastMagnitude(delta))>>)
        ELSE IF delta > 0 THEN
            Returned(None,
                     <<LogCall("info", "Accepting timestamp %ss in the future.",
                               FutureMagnitude(delta))>>)
        ELSE Returned(None, <<>>)

\* mac.AuthHeaderValue(mac_key_identifier, ts, nonce, ext, mac).
AuthHeaderValue(mac_key_identifier, ts, nonce, ext, mac) ==
    [mac_key_identifier |-> mac_key_identifier, ts |-> ts, nonce |-> nonce,
     ext |-> ext, mac |-> mac]

\* The literal parts of 'MAC id="%s", ts="%s", nonce="%s", ext="%s", mac="%s"'.
FmtId == <<"M", "A", "C", " ", "i", "d", "=", QUOTE>>
FmtTs == <<QUOTE, ",", " ", "t", "s", "=", QUOTE>>
FmtNonce == <<QUOTE, ",", " ", "n", "o", "n", "c", "e", "=", QUOTE>>
FmtExt == <<QUOTE, ",", " ", "e", "x", "t", "=", QUOTE>>
FmtMac == <<QUOTE, ",", " ", "m", "a", "c", "=", QUOTE>>
FmtEnd == <<QUOTE>>

\* The header text with ext before nonce.
AuthHeaderValue_str_ext_first(v) ==
    Concat(<<FmtId, v.mac_key_identifier, FmtTs, v.ts, FmtNonce, v.ext,
             FmtExt, v.nonce, FmtMac, v.mac, FmtEnd>>)

\* str(AuthHeaderValue): the header text.
AuthHeaderValue_str(v) ==
    Concat(<<FmtId, v.mac_key_identifier, FmtTs, v.ts, FmtNonce, v.nonce,
             FmtExt, v.ext, FmtMac, v.mac, FmtEnd>>)

\* The required fields without the nonce.
RequiredFields_without_nonce == {"mac_key_identifier", "ts", "mac"}

\* The fields the tests require to be non-empty: a header whose key
\* identifier, timestamp, nonce or mac is "" does not parse.
RequiredFields == {"mac_key_identifier", "ts", "nonce", "mac"}

\* Whether the ext field must be non-empty too.  No test parses a header with
\* ext=""; the specification counts ext among the five fields that may not
\* be empty.
ExtRequired == TRUE

FieldAccepted(name, value) ==
    \/ value # <<>>
    \/ /\ name \notin RequiredFields
       /\ ~(name = "ext" /\ ExtRequired)

\* One quoted value: the literal `lit` at position `at`, then the characters
\* up to the next double quote.  `next` is the place of that quote.
ScanField(s, at, lit, name) ==
    IF ~HasAt(s, at, lit) THEN [ok |-> FALSE]
    ELSE LET start == at + Len(lit)
             q == IndexFrom(s, start, QUOTE)
         IN  IF q = 0 THEN [ok |-> FALSE]
             ELSE IF ~FieldAccepted(name, SubSeq(s, start, q - 1)) THEN [ok |-> FALSE]
             ELSE [ok |-> TRUE, value |-> SubSeq(s, start, q - 1), next |-> q]

\* The match of a header text against the shape of AuthHeaderValue_str:
\* [ok |-> FALSE], or the five values captured.
MatchHeader(s) ==
    IF s = None \/ s = <<>> THEN [ok |-> FALSE]
    ELSE LET f1 == ScanField(s, 1, FmtId, "mac_key_identifier") IN
    IF ~f1.ok THEN [ok |-> FALSE]
    ELSE LET f2 == ScanField(s, f1.next, FmtTs, "ts") IN
    IF ~f2.ok THEN [ok |-> FALSE]
    ELSE LET f3 == ScanField(s, f2.next, FmtNonce, "nonce") IN
    IF ~f3.ok THEN [ok |-> FALSE]
    ELSE LET f4 == ScanField(s, f3.next, FmtExt, "ext") IN
    IF ~f4.ok THEN [ok |-> FALSE]
    ELSE LET f5 == ScanField(s, f4.next, FmtMac, "mac") IN
    IF ~f5.ok THEN [ok |-> FALSE]
    ELSE IF f5.next # Len(s) THEN [ok |-> FALSE]
    ELSE [ok |-> TRUE,
          value |-> AuthHeaderValue(f1.value, f2.value, f3.value, f4.value, f5.value)]

\* mac.AuthHeaderValue.parse(header_value).
AuthHeaderValue_parse(header_value) ==
    LET m == MatchHeader(header_value)
    IN  IF ~m.ok
        THEN Raised("InvalidAuthHeader",
                    <<LogCall("warning", "Invalid format for authorization header %r",
                              header_value)>>)
        ELSE Returned(m.value,
                      <<LogCall("info", "Valid format for authorization header %r",
                                header_value)>>)

\* str.lower() of one character.
Lower(c) ==
    IF \E i \in 1..26 : B64Std[i] = c
    THEN B64Std[(CHOOSE i \in 1..26 : B64Std[i] = c) + 26]
    ELSE c

\* urlparse.urlparse(url) of scheme://host[:port]/path[?query]: the scheme,
\* the hostname (lower case), the port (0 when the url names none) and the
\* request target, path and query as they stand in the url.
urlparse(url) ==
    LET colon == IndexFrom(url, 1, ":")
        start == colon + 3
        slash == IndexFrom(url, start, "/")
        netloc == SubSeq(url, start, (IF slash = 0 THEN Len(url) ELSE slash - 1))
        pcolon == IndexFrom(netloc, 1, ":")
        host == IF pcolon = 0 THEN netloc ELSE SubSeq(netloc, 1, pcolon - 1)
    IN  [scheme |-> SubSeq(url, 1, colon - 1),
         hostname |-> [i \in 1..Len(host) |-> Lower(host[i])],
         port |-> IF pcolon = 0 THEN 0
                  ELSE StrToInt(SubSeq(netloc, pcolon + 1, Len(netloc))),
         target |-> IF slash = 0 THEN <<>> ELSE SubSeq(url, slash, Len(url))]

\* The port a url stands for: its own, or its scheme's.
UrlPort(parts) ==
    IF parts.port # 0 THEN parts.port
    ELSE IF parts.scheme = <<"h", "t", "t", "p", "s">> THEN 443
    ELSE 80

\* The normalized request string generate_authorization_header_value signs.
HeaderRequestString(http_method, url, content_type, body, time_, random_bytes) ==
    LET parts == urlparse(url)
    IN  build_normalized_request_string(
            NatToStr(time_), generate_nonce(random_bytes), http_method,
            parts.hostname, UrlPort(parts), parts.target,
            generate_ext(content_type, body))

\* The header fields with the clock read a second time, a second later, for
\* the ts field.
HeaderFields_clock_read_twice(http_method, url, mac_key_identifier, mac_key, content_type, body, time_, random_bytes) ==
    AuthHeaderValue(
        mac_key_identifier,
        NatToStr(time_ + 1),
        generate_nonce(random_bytes),
        generate_ext(content_type, body),
        generate_signature(
            mac_key,
            HeaderRequestString(http_method, url, content_type, body, time_,
                                random_bytes)))

\* The AuthHeaderValue generate_authorization_header_value assembles, the
\* clock reading time_ and os.urandom returning random_bytes.
HeaderFields(http_method, url, mac_key_identifier, mac_key, content_type, body, time_, random_bytes) ==
    AuthHeaderValue(
        mac_key_identifier,
        NatToStr(time_),
        generate_nonce(random_bytes),
        generate_ext(content_type, body),
        generate_signature(
            mac_key,
            HeaderRequestString(http_method, url, content_type, body, time_,
                                random_bytes)))

\* mac.generate_authorization_header_value(http_method, url,
\* mac_key_identifier, mac_key, content_type, body).
generate_authorization_header_value(http_method, url, mac_key_identifier, mac_key, content_type, body, time_, random_bytes) ==
    AuthHeaderValue_str(
        HeaderFields(http_method, url, mac_key_identifier, mac_key, content_type,
                     body, time_, random_bytes))

\* The calls generate_authorization_header_value makes to its dependencies,
\* as the mocks of the tests record them: one list of argument tuples each.
HeaderCalls(http_method, url, mac_key_identifier, mac_key, content_type, body, time_, random_bytes) ==
    [time |-> <<<<>>>>,
     generate_nonce |-> <<<<>>>>,
     generate_ext |-> <<<<content_type, body>>>>,
     generate_signature |->
         <<<<mac_key,
             HeaderRequestString(http_method, url, content_type, body, time_,
                                 random_bytes)>>>>]

\* Header verification: parse the header, validate its timestamp, rebuild the
\* normalized string from the request as received with the header's
\* timestamp and nonce and the ext digest of the received content, and verify
\* the header's mac with the secret.  The first stage that fails ends it.
verify_authorization_header_value(header_value, http_method, host, port, request_uri, content_type, body, shared_secret, now_) ==
    LET parsed == AuthHeaderValue_parse(header_value)
    IN  IF parsed.exc # "None" THEN Raised(parsed.exc, parsed.log)
        ELSE
        LET fresh == verify_timestamp([str |-> parsed.val.ts], now_)
        IN  IF fresh.exc # "None" THEN Raised(fresh.exc, parsed.log \o fresh.log)
            ELSE
            LET checked ==
                    verify_signature(
                        parsed.val.mac, shared_secret,
                        build_normalized_request_string(
                            parsed.val.ts, parsed.val.nonce, http_method, host, port,
                            request_uri, generate_ext(content_type, body)))
            IN  IF checked.exc # "None"
                THEN Raised(checked.exc, parsed.log \o fresh.log)
                ELSE Returned(None, parsed.log \o fresh.log)

\* ---------------------------------------------------------------- inputs

\* How far the verifier's clock runs.
MaxNow == TIMESTAMP_MAX_SECONDS + 1

\* How far outside the window the timestamps tried lie.
Beyond == 2

ContentTypes == {None, <<>>, <<"a">>, <<"a", "b">>}
Bodies == {None, <<>>, <<"c">>, <<"b", "c">>}

Secrets == {<<"s">>, <<"t", "s">>}
Methods == {<<"G", "E", "T">>, <<"P", "O", "S", "T">>}

\* Normalized strings and other texts to sign.
Messages == {<<>>, <<"a">>, <<"a", NL>>, <<"b", NL>>, <<"a", NL, "b", NL>>}

\* Values of a header field: empty, plain, and with the characters of the
\* header's own punctuation.
FieldValues == {<<>>, <<"4", "2">>, <<"a">>, <<"a", QUOTE>>}

\* What os.urandom(8) may return.
RandomBytes == {<<0, 1, 2, 3, 4, 5, 6, 7>>, <<255, 254, 62, 63, 251, 239, 190, 0>>}

Urls == {<<"h", "t", "t", "p", ":", "/", "/", "H", "o", ":", "8", "/", "p", "?", "q">>,
         <<"h", "t", "t", "p", "s", ":", "/", "/", "h", "o", "/", "p">>}

\* The content of a request: <<content_type, body>>.
Contents ==
    {<<None, None>>, <<<<"a">>, <<>>>>, <<<<"a">>, <<"c">>>>,
     <<<<"a">>, <<"b", "c">>>>, <<<<"a", "b">>, <<"c">>>>}

\* How far the signer's clock is ahead of the verifier's.
ClockSkews == {0, TIMESTAMP_MAX_SECONDS + 1}

\* s with the character at position i replaced by c.
ReplaceAt(s, i, c) == [s EXCEPT ![i] = c]

\* Other texts for a signature, each with whether it encodes the same bytes:
\* the same bytes without padding, with white space, in the web-safe
\* characters, with the two spare bits of the last character set; and other
\* bytes (a character changed, the last character dropped).  All of them
\* decode.
SignatureVariants(sig) ==
    {[text |-> sig, same |-> TRUE],
     [text |-> SubSeq(sig, 1, Len(sig) - 1), same |-> TRUE],
     [text |-> sig \o <<" ">>, same |-> TRUE],
     [text |-> <<NL>> \o sig, same |-> TRUE],
     [text |-> [i \in 1..Len(sig) |->
                   IF sig[i] = "+" THEN "-" ELSE IF sig[i] = "/" THEN "_" ELSE sig[i]],
      same |-> TRUE],
     [text |-> ReplaceAt(sig, 7, B64Std[B64Value(sig[7]) + 2]), same |-> TRUE],
     [text |-> ReplaceAt(sig, 1, B64Std[((B64Value(sig[1]) + 1) % 64) + 1]),
      same |-> FALSE],
     [text |-> ReplaceAt(sig, 7, B64Std[((B64Value(sig[7]) + 4) % 64) + 1]),
      same |-> FALSE],
     [text |-> SubSeq(sig, 1, 6) \o <<"=">>, same |-> FALSE]}

\* The arguments build_normalized_request_string is tried on; the first is
\* the example of the RFC draft that the test uses.
BuildInputs ==
    {[ts |-> <<"2", "6", "4", "0", "9", "5">>, nonce |-> <<"7", "d", "8", "f", "3", "e", "4", "a">>,
      http_method |-> <<"P", "O", "S", "T">>,
      host |-> <<"e", "x", "a", "m", "p", "l", "e", ".", "c", "o", "m">>, port |-> 80,
      request_uri |-> <<"/", "r", "e", "q", "u", "e", "s", "t", "?", "b", "5", "=", "%", "3", "D", "%", "2", "5", "3", "D", "&", "a", "3", "=", "a", "&", "c", "%", "4", "0", "=", "&", "a", "2", "=", "r", "%", "2", "0", "b", "&", "c", "2", "&", "a", "3", "=", "2", "+", "q">>,
      ext |-> <<"a", ",", "b", ",", "c">>]}
    \cup
    [ts : {<<"4", "2">>, <<>>}, nonce : {<<"n">>, <<"n", NL, "x">>},
     http_method : Methods, host : {<<"h">>, <<>>}, port : {80, 8008},
     request_uri : {<<"/">>, <<"/", "p", "?", "q">>},
     ext : {<<>>, <<"a", ",", "b">>}]

\* Header texts that are not of the shape of AuthHeaderValue_str: absent,
\* empty, "foo", and a rendered header cut or misspelt.
Misshapen(text) ==
    {None, <<>>, <<"f", "o", "o">>,
     SubSeq(text, 1, Len(text) - 1),
     SubSeq(text, 5, Len(text)),
     ReplaceAt(text, 6, "x")}

\* ------------------------------------------------------- the state machine

VARIABLES
    now,    \* the verifier's clock (time.time()), in seconds
    op,     \* the operation in progress, "none" between calls
    args,   \* its arguments
    ret,    \* its outcome: Returned(..) or Raised(..)
    calls,  \* the dependency calls it made (generate_authorization_header_value)
    wire    \* the header in flight with the request it was made for, or <<>>

vars == <<now, op, args, ret, calls, wire>>

Init ==
    /\ now = 0
    /\ op = "none"
    /\ args = <<>>
    /\ ret = <<>>
    /\ calls = <<>>
    /\ wire = <<>>

\* A caller may start an operation when none is in progress and no header is
\* in flight.
Idle == op = "none" /\ wire = <<>>

Tick ==
    /\ op = "none"
    /\ now < MaxNow
    /\ now' = now + 1
    /\ UNCHANGED <<op, args, ret, calls, wire>>

Return ==
    /\ op # "none"
    /\ op' = "none"
    /\ args' = <<>>
    /\ ret' = <<>>
    /\ calls' = <<>>
    /\ UNCHANGED <<now, wire>>

Call_generate_ext ==
    /\ Idle
    /\ \E content_type \in ContentTypes, body \in Bodies :
        /\ op' = "generate_ext"
        /\ args' = [content_type |-> content_type, body |-> body]
        /\ ret' = Returned(generate_ext(content_type, body), <<>>)
    /\ UNCHANGED <<now, calls, wire>>

Call_build_normalized_request_string ==
    /\ Idle
    /\ \E a \in BuildInputs :
        /\ op' = "build_normalized_request_string"
        /\ args' = a
        /\ ret' = Returned(build_normalized_request_string(
                               a.ts, a.nonce, a.http_method, a.host, a.port,
                               a.request_uri, a.ext),
                           <<>>)
    /\ UNCHANGED <<now, calls, wire>>

Call_generate_signature ==
    /\ Idle
    /\ \E mac_key \in Secrets, message \in Messages :
        /\ op' = "generate_signature"
        /\ args' = [mac_key |-> mac_key, normalized_request_string |-> message]
        /\ ret' = Returned(generate_signature(mac_key, message), <<>>)
    /\ UNCHANGED <<now, calls, wire>>

\* verify_signature on a text made from a signature: signed_key and
\* signed_string say which, same_bytes whether it encodes the same bytes.
Call_verify_signature ==
    /\ Idle
    /\ \E signed_key \in Secrets, signed_string \in Messages,
          shared_secret \in Secrets, message \in Messages :
        \E variant \in SignatureVariants(generate_signature(signed_key, signed_string)) :
            /\ op' = "verify_signature"
            /\ args' = [signature |-> variant.text, shared_secret |-> shared_secret,
                        normalized_request_string |-> message,
                        signed_key |-> signed_key, signed_string |-> signed_string,
                        same_bytes |-> variant.same]
            /\ ret' = verify_signature(variant.text, shared_secret, message)
    /\ UNCHANGED <<now, calls, wire>>

Call_verify_timestamp ==
    /\ Idle
    /\ \E n \in (now - TIMESTAMP_MAX_SECONDS - Beyond)..(now + TIMESTAMP_MAX_SECONDS + Beyond) :
        \E ts \in {[int |-> n], [str |-> IntToStr(n)]} :
            /\ op' = "verify_timestamp"
            /\ args' = [ts |-> ts, n |-> n]
            /\ ret' = verify_timestamp(ts, now)
    /\ UNCHANGED <<now, calls, wire>>

Call_AuthHeaderValue_str ==
    /\ Idle
    /\ \E f \in [1..5 -> FieldValues] :
        /\ op' = "AuthHeaderValue_str"
        /\ args' = [value |-> AuthHeaderValue(f[1], f[2], f[3], f[4], f[5])]
        /\ ret' = Returned(AuthHeaderValue_str(AuthHeaderValue(f[1], f[2], f[3], f[4], f[5])),
                           <<>>)
    /\ UNCHANGED <<now, calls, wire>>

\* parse on the text of a value (args.rendered holds the value).
Call_AuthHeaderValue_parse_rendered ==
    /\ Idle
    /\ \E f \in [1..5 -> FieldValues] :
        LET v == AuthHeaderValue(f[1], f[2], f[3], f[4], f[5])
        IN  /\ op' = "AuthHeaderValue_parse"
            /\ args' = [header_value |-> AuthHeaderValue_str(v), rendered |-> <<v>>]
            /\ ret' = AuthHeaderValue_parse(AuthHeaderValue_str(v))
    /\ UNCHANGED <<now, calls, wire>>

\* parse on a text that is no rendered value.
Call_AuthHeaderValue_parse_misshapen ==
    /\ Idle
    /\ \E f \in [1..5 -> FieldValues \ {<<>>}] :
        \E text \in Misshapen(AuthHeaderValue_str(
                                  AuthHeaderValue(f[1], f[2], f[3], f[4], f[5]))) :
            /\ op' = "AuthHeaderValue_parse"
            /\ args' = [header_value |-> text, rendered |-> <<>>]
            /\ ret' = AuthHeaderValue_parse(text)
    /\ UNCHANGED <<now, calls, wire>>

\* The signer's side: the header goes on the wire with the request it was
\* generated for.
Call_generate_authorization_header_value ==
    /\ Idle
    /\ \E http_method \in {<<"G", "E", "T">>}, url \in Urls, mac_key \in {<<"s">>},
          content \in Contents, skew \in ClockSkews, random_bytes \in RandomBytes :
        LET request == [http_method |-> http_method, url |-> url,
                        mac_key_identifier |-> <<"K">>, mac_key |-> mac_key,
                        content_type |-> content[1], body |-> content[2],
                        time_ |-> now + skew, random_bytes |-> random_bytes]
            header == generate_authorization_header_value(
                          http_method, url, <<"K">>, mac_key, content[1], content[2],
                          now + skew, random_bytes)
        IN  /\ op' = "generate_authorization_header_value"
            /\ args' = request
            /\ ret' = Returned(header, <<>>)
            /\ calls' = HeaderCalls(http_method, url, <<"K">>, mac_key, content[1],
                                    content[2], now + skew, random_bytes)
            /\ wire' = <<[header |-> header, request |-> request, changed |-> "no"]>>
    /\ UNCHANGED now

\* The header as the server receives it may not be the one sent.
WireVariants(w) ==
    LET v == HeaderFields(w.request.http_method, w.request.url,
                          w.request.mac_key_identifier, w.request.mac_key,
                          w.request.content_type, w.request.body,
                          w.request.time_, w.request.random_bytes)
    IN  {[w EXCEPT !.header = None, !.changed = "absent"],
         [w EXCEPT !.header = AuthHeaderValue_str(
                                  [v EXCEPT !.mac = SubSeq(v.mac, 1, Len(v.mac) - 1)]),
                   !.changed = "mac re-encoded"],
         [w EXCEPT !.header = AuthHeaderValue_str(
                                  [v EXCEPT !.mac = ReplaceAt(v.mac, 1,
                                      B64Std[((B64Value(v.mac[1]) + 1) % 64) + 1])]),
                   !.changed = "mac"],
         [w EXCEPT !.header = AuthHeaderValue_str(
                                  [v EXCEPT !.nonce = ReplaceAt(v.nonce, 1, "x")]),
                   !.changed = "nonce"],
         [w EXCEPT !.header = AuthHeaderValue_str(
                                  [v EXCEPT !.ts = NatToStr(w.request.time_ + 1)]),
                   !.changed = "ts"]}

Tamper ==
    /\ op = "none"
    /\ wire # <<>>
    /\ wire[1].changed = "no"
    /\ \E w \in WireVariants(wire[1]) : wire' = <<w>>
    /\ UNCHANGED <<now, op, args, ret, calls>>

\* The request the server sees: the one sent, or one that differs from it in
\* one part.
ReceivedRequests(r) ==
    LET parts == urlparse(r.url)
        sent == [http_method |-> r.http_method, host |-> parts.hostname,
                 port |-> UrlPort(parts), request_uri |-> parts.target,
                 content_type |-> r.content_type, body |-> r.body,
                 shared_secret |-> r.mac_key]
    IN  {sent}
        \cup {[sent EXCEPT !.http_method = m] : m \in Methods}
        \cup {[sent EXCEPT !.host = <<"x">>], [sent EXCEPT !.port = 81],
              [sent EXCEPT !.request_uri = <<"/">>]}
        \cup {[sent EXCEPT !.content_type = c[1], !.body = c[2]] : c \in Contents}
        \cup {[sent EXCEPT !.shared_secret = k] : k \in Secrets}

\* The server's side: the header on the wire is verified against the request
\* received.
Call_verify_authorization_header_value ==
    /\ op = "none"
    /\ wire # <<>>
    /\ \E r \in ReceivedRequests(wire[1].request) :
        /\ op' = "verify_authorization_header_value"
        /\ args' = [header_value |-> wire[1].header, received |-> r,
                    sent |-> wire[1].request, changed |-> wire[1].changed]
        /\ ret' = verify_authorization_header_value(
                      wire[1].header, r.http_method, r.host, r.port, r.request_uri,
                      r.content_type, r.body, r.shared_secret, now)
    /\ wire' = <<>>
    /\ UNCHANGED <<now, calls>>

Next ==
    \/ Tick
    \/ Return
    \/ Call_generate_ext
    \/ Call_build_normalized_request_string
    \/ Call_generate_signature
    \/ Call_verify_signature
    \/ Call_verify_timestamp
    \/ Call_AuthHeaderValue_str
    \/ Call_AuthHeaderValue_parse_rendered
    \/ Call_AuthHeaderValue_parse_misshapen
    \/ Call_generate_authorization_header_value
    \/ Tamper
    \/ Call_verify_authorization_header_value

Spec == Init /\ [][Next]_vars

\* ---------------------------------------------------------------- claims

\* Whether `text` is exactly the texts of `fields`, each followed by one
\* newline, in their order, with nothing before, between or after them.
RECURSIVE LinesAre(_, _)
LinesAre(text, fields) ==
    IF fields = <<>> THEN text = <<>>
    ELSE /\ HasAt(text, 1, Head(fields))
         /\ Len(text) > Len(Head(fields))
         /\ text[Len(Head(fields)) + 1] = NL
         /\ LinesAre(SubSeq(text, Len(Head(fields)) + 2, Len(text)), Tail(fields))

\* C7: build_normalized_request_string returns its seven fields, each
\* followed by one newline, in the order timestamp, nonce, method, request
\* target, host, port, ext, and nothing else; it ends with ext and a newline.
C7_NormalizedLayout ==
    op = "build_normalized_request_string" =>
        /\ LinesAre(ret.val, <<args.ts, args.nonce, args.http_method, args.request_uri,
                               args.host, IntToStr(args.port), args.ext>>)
        /\ Len(ret.val) = Len(args.ts) + Len(args.nonce) + Len(args.http_method)
                          + Len(args.request_uri) + Len(args.host)
                          + Len(IntToStr(args.port)) + Len(args.ext) + 7
        /\ SubSeq(ret.val, Len(ret.val) - Len(args.ext), Len(ret.val))
             = args.ext \o <<NL>>

\* The example of the RFC draft, as the test expects it.
C7_Witness ==
    /\ op = "build_normalized_request_string"
    /\ args.host = <<"e", "x", "a", "m", "p", "l", "e", ".", "c", "o", "m">>
    /\ ret.val = <<"2", "6", "4", "0", "9", "5", NL, "7", "d", "8", "f", "3", "e", "4", "a", NL, "P", "O", "S", "T", NL, "/", "r", "e", "q", "u", "e", "s", "t", "?", "b", "5", "=", "%", "3", "D", "%", "2", "5", "3", "D", "&", "a", "3", "=", "a", "&", "c", "%", "4", "0", "=", "&", "a", "2", "=", "r", "%", "2", "0", "b", "&", "c", "2", "&", "a", "3", "=", "2", "+", "q", NL, "e", "x", "a", "m", "p", "l", "e", ".", "c", "o", "m", NL, "8", "0", NL, "a", ",", "b", ",", "c", NL>>

\* C8: generate_ext returns "" when content_type or body is None or "", and
\* otherwise the hex digest of content_type + body, which is not "" and is
\* the digest of every other pair with the same concatenation.
C8_ExtDigest ==
    op = "generate_ext" =>
        IF \/ args.content_type = None
           \/ args.content_type = <<>>
           \/ args.body = None
           \/ args.body = <<>>
        THEN ret.val = <<>>
        ELSE /\ ret.val = hexdigest(sha1(args.content_type \o args.body))
             /\ ret.val # <<>>
             /\ \A c \in ContentTypes \ {None, <<>>}, b \in Bodies \ {None, <<>>} :
                    (c \o b = args.content_type \o args.body)
                        <=> (generate_ext(c, b) = ret.val)

\* ("ab", "c") digests to what ("a", "bc") digests to.
C8_Witness ==
    /\ op = "generate_ext"
    /\ args.content_type = <<"a", "b">>
    /\ args.body = <<"c">>
    /\ ret.val # <<>>
    /\ ret.val = generate_ext(<<"a">>, <<"b", "c">>)

\* ts - now of a verify_timestamp call; args.n is the number given, as a
\* number or as its decimal text.
Delta == args.n - now

\* C3: verify_timestamp returns exactly when
\* -TIMESTAMP_MAX_SECONDS <= ts - now <= TIMESTAMP_MAX_SECONDS, both ends
\* included, and raises InvalidTimeStamp otherwise, for ts a number or text.
C3_TimestampWindow ==
    op = "verify_timestamp" =>
        IF -TIMESTAMP_MAX_SECONDS <= Delta /\ Delta <= TIMESTAMP_MAX_SECONDS
        THEN ret.exc = "None"
        ELSE ret.exc = "InvalidTimeStamp"

\* A text timestamp exactly TIMESTAMP_MAX_SECONDS old is accepted.
C3_Witness ==
    /\ op = "verify_timestamp"
    /\ "str" \in DOMAIN args.ts
    /\ Delta = -TIMESTAMP_MAX_SECONDS
    /\ ret.exc = "None"

\* C10 as stated: a timestamp that is too old is rejected with one warning
\* whose magnitude is the overshoot past the window,
\* -delta - TIMESTAMP_MAX_SECONDS.
C10_Overshoot ==
    (op = "verify_timestamp" /\ Delta < -TIMESTAMP_MAX_SECONDS) =>
        ret.log = <<LogCall("warning", "Rejecting timestamp %ss in the past.",
                            -Delta - TIMESTAMP_MAX_SECONDS)>>

\* C10 amended: a timestamp that is too old is rejected with exactly one
\* warning, and no informational message, whose magnitude is the distance
\* -delta itself.
C10_Distance ==
    (op = "verify_timestamp" /\ Delta < -TIMESTAMP_MAX_SECONDS) =>
        /\ ret.exc = "InvalidTimeStamp"
        /\ ret.log = <<LogCall("warning", "Rejecting timestamp %ss in the past.",
                               -Delta)>>

\* The test's case: TIMESTAMP_MAX_SECONDS + 1 in the past, reported as
\* TIMESTAMP_MAX_SECONDS + 1.
C10_Witness ==
    /\ op = "verify_timestamp"
    /\ Delta = -TIMESTAMP_MAX_SECONDS - 1
    /\ Len(ret.log) = 1
    /\ ret.log[1].level = "warning"
    /\ ret.log[1].arg = TIMESTAMP_MAX_SECONDS + 1

\* The places of the double quotes of a text, from position `at` on.
RECURSIVE Quotes(_, _)
Quotes(s, at) ==
    IF at > Len(s) THEN <<>>
    ELSE IF s[at] = QUOTE THEN <<at>> \o Quotes(s, at + 1)
    ELSE Quotes(s, at + 1)

\* Whether a text is of the shape
\* MAC id="..", ts="..", nonce="..", ext="..", mac="..": ten double quotes,
\* the literal parts around them, nothing after the last.
Shaped(s) ==
    LET q == Quotes(s, 1)
    IN  /\ Len(q) = 10
        /\ SubSeq(s, 1, q[1]) = FmtId
        /\ SubSeq(s, q[2], q[3]) = FmtTs
        /\ SubSeq(s, q[4], q[5]) = FmtNonce
        /\ SubSeq(s, q[6], q[7]) = FmtExt
        /\ SubSeq(s, q[8], q[9]) = FmtMac
        /\ q[10] = Len(s)

\* The k-th quoted value of a text of that shape.
Quoted(s, k) ==
    LET q == Quotes(s, 1) IN SubSeq(s, q[(2 * k) - 1] + 1, q[2 * k] - 1)

FieldsOf(v) == <<v.mac_key_identifier, v.ts, v.nonce, v.ext, v.mac>>

C5_RoundTripAny ==
    ( /\ op = "AuthHeaderValue_parse"
      /\ args.rendered # <<>>
      /\ \A k \in 1..5 : FieldsOf(args.rendered[1])[k] # <<>> )
    => /\ ret.exc = "None"
       /\ FieldsOf(ret.val) = FieldsOf(args.rendered[1])

\* Whether a text holds a double quote.
HasQuote(s) == \E i \in 1..Len(s) : s[i] = QUOTE

\* C5 amended: for every value with five non-empty fields none of which holds
\* a double quote, parsing its text succeeds and returns the same five
\* fields in the same places.
C5_RoundTripUnquoted ==
    ( /\ op = "AuthHeaderValue_parse"
      /\ args.rendered # <<>>
      /\ \A k \in 1..5 : /\ FieldsOf(args.rendered[1])[k] # <<>>
                         /\ ~HasQuote(FieldsOf(args.rendered[1])[k]) )
    => /\ ret.exc = "None"
       /\ FieldsOf(ret.val) = FieldsOf(args.rendered[1])

\* A value whose neighbouring fields differ comes back field by field.
C5_Witness ==
    /\ op = "AuthHeaderValue_parse"
    /\ args.rendered # <<>>
    /\ FieldsOf(args.rendered[1]) = <<<<"a">>, <<"4", "2">>, <<"a">>, <<"4", "2">>, <<"a">>>>
    /\ ret.exc = "None"
    /\ ret.val.ts = <<"4", "2">>
    /\ ret.val.nonce = <<"a">>
    /\ ret.val.ext = <<"4", "2">>

\* The signature text generate_signature made for the key and string that
\* a verify_signature call's text was derived from.
Signed == generate_signature(args.signed_key, args.signed_string)

PartsOf(url) ==
    IF url = <<"h", "t", "t", "p", ":", "/", "/", "H", "o", ":", "8", "/", "p", "?", "q">>
    THEN [host |-> <<"h", "o">>, port |-> 8, request_uri |-> <<"/", "p", "?", "q">>]
    ELSE [host |-> <<"h", "o">>, port |-> 443, request_uri |-> <<"/", "p">>]

\* The normalized string of a request signed at time_ with the nonce of
\* random_bytes.
SignedString(r) ==
    Concat(<<NatToStr(r.time_), <<NL>>, b64encode(r.random_bytes), <<NL>>,
             r.http_method, <<NL>>, PartsOf(r.url).request_uri, <<NL>>,
             PartsOf(r.url).host, <<NL>>, IntToStr(PartsOf(r.url).port), <<NL>>,
             generate_ext(r.content_type, r.body), <<NL>>>>)

\* C6: generate_authorization_header_value reads the clock once, draws one
\* nonce, computes ext once from (content_type, body), signs with the secret
\* the normalized string of that timestamp, nonce and ext with the method and
\* the url's host, port and request target, and returns
\* MAC id=.., ts=.., nonce=.., ext=.., mac=.. with those values in that order.
C6_GeneratedHeader ==
    op = "generate_authorization_header_value" =>
        /\ ret.val
             = Concat(<<FmtId, args.mac_key_identifier,
                        FmtTs, NatToStr(args.time_),
                        FmtNonce, b64encode(args.random_bytes),
                        FmtExt, generate_ext(args.content_type, args.body),
                        FmtMac, b64encode(HmacKey_Sign(args.mac_key, SignedString(args))),
                        FmtEnd>>)
        /\ calls.time = <<<<>>>>
        /\ calls.generate_nonce = <<<<>>>>
        /\ calls.generate_ext = <<<<args.content_type, args.body>>>>
        /\ calls.generate_signature = <<<<args.mac_key, SignedString(args)>>>>

\* A header for a url with a port and a query and for a body: its ts is the
\* clock's reading and its ext is the digest.
C6_Witness ==
    /\ op = "generate_authorization_header_value"
    /\ args.url = <<"h", "t", "t", "p", ":", "/", "/", "H", "o", ":", "8", "/", "p", "?", "q">>
    /\ args.content_type = <<"a">>
    /\ args.body = <<"b", "c">>
    /\ Shaped(ret.val)
    /\ Quoted(ret.val, 1) = <<"K">>
    /\ Quoted(ret.val, 2) = NatToStr(args.time_)
    /\ Quoted(ret.val, 4) = generate_ext(<<"a">>, <<"b", "c">>)
    /\ Quoted(ret.val, 4) # <<>>

\* Whether the request received is the request sent, with the same secret.
SameRequest(r, sent) ==
    /\ r.http_method = sent.http_method
    /\ r.host = PartsOf(sent.url).host
    /\ r.port = PartsOf(sent.url).port
    /\ r.request_uri = PartsOf(sent.url).request_uri
    /\ r.shared_secret = sent.mac_key

\* Whether the verifier's clock is within the window of the signing time.
InWindow(t) == -TIMESTAMP_MAX_SECONDS <= t - now /\ t - now <= TIMESTAMP_MAX_SECONDS

C9_GeneratedWithContentIsAccepted ==
    ( /\ op = "verify_authorization_header_value"
      /\ args.changed = "no"
      /\ SameRequest(args.received, args.sent)
      /\ args.received.content_type = args.sent.content_type
      /\ args.received.body = args.sent.body
      /\ HasContent(args.sent.content_type, args.sent.body)
      /\ InWindow(args.sent.time_) )
    => ret.exc = "None"

\* The stages of a header verification, from the header text and the request
\* received.
ParseStage == args.header_value # None /\ Shaped(args.header_value)
              /\ \A k \in 1..5 : Quoted(args.header_value, k) # <<>>

TimestampStage == InWindow(StrToInt(Quoted(args.header_value, 2)))

\* The normalized string rebuilt from the request received.
RebuiltString ==
    Concat(<<Quoted(args.header_value, 2), <<NL>>, Quoted(args.header_value, 3), <<NL>>,
             args.received.http_method, <<NL>>, args.received.request_uri, <<NL>>,
             args.received.host, <<NL>>, IntToStr(args.received.port), <<NL>>,
             generate_ext(args.received.content_type, args.received.body), <<NL>>>>)

SameContent(r, sent) ==
    /\ HasContent(sent.content_type, sent.body)
    /\ HasContent(r.content_type, r.body)
    /\ r.content_type \o r.body = sent.content_type \o sent.body

====
